---- MODULE Spec2Model ----
(***************************************************************************)
(* Online serving-vector engine of hsfs:                                   *)
(*   TrainingDatasetEngine.init_prepared_statement                         *)
(*   TrainingDatasetEngine.get_serving_vector                              *)
(*   TrainingDatasetEngine.deserialize_complex_features                    *)
(*   TrainingDatasetEngine._apply_transformation                           *)
(* (python/hsfs/core/training_dataset_engine.py).                          *)
(*                                                                         *)
(* The state is the serving state kept on the training-dataset object.     *)
(* Every call is one action.  The collaborators (metadata service, online  *)
(* store, schema registry, transformation registry) are inputs of the      *)
(* calls, drawn from small sets.                                           *)
(***************************************************************************)
EXTENDS Integers, Sequences, FiniteSets, TLC

VARIABLES
    prepared_statement_engine,  \* None | Some(engine)
    prepared_statements,        \* None | Some(ordered dict index -> statement)
    serving_keys,               \* None | Some(set of names)
    serving_batch_size,         \* None | Some(int)
    transformation_functions,   \* set of feature names that have a transformation
    schema,                     \* complex-typed features of training_dataset.schema
    service,                    \* the metadata service's lookups of this dataset
    registry,                   \* the transformations attached to this dataset
    running,                    \* None | Some(frame of an init call under way)
    last                        \* the last call: its arguments and what it did

vars == <<prepared_statement_engine, prepared_statements, serving_keys,
          serving_batch_size, transformation_functions, schema, service,
          registry, running, last>>

----------------------------------------------------------------------------
(* Bounds of the model. *)

\* longest sequence-valued entry value, and largest batch size asked of init
MaxLen == 2
\* most rows a single-mode lookup returns
MaxRows == 2
\* most parameters of a generated lookup template
MaxParams == 2

----------------------------------------------------------------------------
(* Python values. *)

\* Python's None, and a value that is not None
None == <<>>
Some(x) == <<x>>
IsNone(o) == o = <<>>
Get(o) == o[1]

SeqRange(s) == {s[i] : i \in 1..Len(s)}

\* An ordered dict (Python 3.7+: a dict iterates in insertion order) is a
\* sequence of [k, v] pairs with distinct keys.
DictKeys(d) == [i \in 1..Len(d) |-> d[i].k]
DictValues(d) == [i \in 1..Len(d) |-> d[i].v]
DictHas(d, key) == \E i \in 1..Len(d) : d[i].k = key
DictGet(d, key) == d[CHOOSE i \in 1..Len(d) : d[i].k = key].v
\* d[key] = val: an existing key keeps its position
DictPut(d, key, val) ==
    IF DictHas(d, key)
    THEN [i \in 1..Len(d) |-> IF d[i].k = key THEN [k |-> key, v |-> val] ELSE d[i]]
    ELSE Append(d, [k |-> key, v |-> val])

----------------------------------------------------------------------------
(* Entries: the caller's primary-key map, an ordered dict name -> value.   *)
(* A value is a number, a string, a list or a tuple; sequences have a      *)
(* length.  The i-th element of a sequence-valued entry names the i-th     *)
(* requested entity (0-based).                                             *)

Names == {"k1", "k2", "k3"}

Num == [kind |-> "num", len |-> 0]
EntryValues ==
    {Num, [kind |-> "str", len |-> MaxLen], [kind |-> "tuple", len |-> MaxLen]}
    \cup [kind : {"list"}, len : 1..MaxLen]

\* hasattr(v, "__iter__")
HasIter(v) == v.kind \in {"str", "list", "tuple"}
\* isinstance(v, list)
IsList(v) == v.kind = "list"
\* len(v) is defined (a number raises TypeError)
HasLen(v) == v.kind \in {"str", "list", "tuple"}

\* what the claims call a sequence: a list or a non-list iterable such as a
\* tuple; a number or a string is a scalar
IsSequence(v) == v.kind \in {"list", "tuple"}
IsScalar(v) == v.kind \in {"num", "str"}

\* The entries the callers send: up to two keys, listed in name order (the
\* code reads the keys as a set and the values by position).
NameOrder(n) == CASE n = "k1" -> 1 [] n = "k2" -> 2 [] n = "k3" -> 3
Entries ==
    {e \in UNION {[1..n -> [k : Names, v : EntryValues]] : n \in 0..2} :
        \A i, j \in 1..Len(e) : i < j => NameOrder(e[i].k) < NameOrder(e[j].k)}

EntryKeys(entry) == {entry[i].k : i \in 1..Len(entry)}
EntryVals(entry) == [i \in 1..Len(entry) |-> entry[i].v]

----------------------------------------------------------------------------
(* The metadata service's answers: the prepared lookups of the training    *)
(* dataset.  A query is a sequence of tokens; "?" is a positional          *)
(* placeholder, "nl" a line break, ":" \o name a named placeholder.  The   *)
(* tokens between SELECT and FROM are the columns of the result rows.      *)

Param(n, i) == [name |-> n, index |-> i]

Lookup(i, q, ps) ==
    [prepared_statement_index |-> i, query_online |-> q,
     prepared_statement_parameters |-> ps]

\* index 0: features f1, f2 of a feature group keyed by k1
LookupF12 ==
    Lookup(0, <<"SELECT", "f1", "f2", "FROM", "fg0", "WHERE", "k1", "=", "?">>,
           <<Param("k1", 0)>>)
\* index 1: features f3, f4 of a feature group keyed by (k1, k2); the
\* parameters are listed out of index order and the query spans two lines
LookupF34 ==
    Lookup(1, <<"SELECT", "f3", "f4", "FROM", "fg1", "nl", "WHERE", "k1", "=", "?",
                "AND", "k2", "=", "?">>,
           <<Param("k2", 1), Param("k1", 0)>>)
\* index 0: the serving key k1 is one of the selected columns
LookupKey ==
    Lookup(0, <<"SELECT", "k1", "f1", "FROM", "fg0", "WHERE", "k1", "=", "?">>,
           <<Param("k1", 0)>>)
\* index 0: two placeholders, one parameter name
LookupMorePlaceholders ==
    Lookup(0, <<"SELECT", "f1", "f2", "FROM", "fg0", "WHERE", "k1", "=", "?",
                "AND", "k2", "=", "?">>,
           <<Param("k1", 0)>>)
\* index 0: one placeholder, two parameter names
LookupMoreNames ==
    Lookup(0, <<"SELECT", "f1", "f2", "FROM", "fg0", "WHERE", "k1", "=", "?">>,
           <<Param("k1", 0), Param("k2", 1)>>)

\* A training dataset as its collaborators know it: what
\* get_serving_prepared_statement answers (in the order it answers), the
\* transformed features get_td_transformation_fn answers, and the
\* complex-typed features of training_dataset.schema.
World(lookups, tfs, complex) == [service |-> lookups, registry |-> tfs, schema |-> complex]

Worlds ==
    { World(<<LookupF12>>, {}, <<>>),
      World(<<LookupF12, LookupF34>>, {}, <<>>),
      World(<<LookupF34, LookupF12>>, {}, <<>>),
      World(<<LookupKey>>, {}, <<>>),
      World(<<LookupMorePlaceholders>>, {}, <<>>),
      World(<<LookupMoreNames>>, {}, <<>>),
      World(<<LookupF12>>, {"f1", "f9"}, <<"f1">>),
      World(<<LookupF12, LookupF34>>, {"f1", "f9"}, <<"f1">>) }

----------------------------------------------------------------------------
(* init_prepared_statement.                                                *)

\* The serving state of a training dataset, as one value.
Dataset(e, st, keys, bs, tf) ==
    [prepared_statement_engine |-> e, prepared_statements |-> st,
     serving_keys |-> keys, serving_batch_size |-> bs,
     transformation_functions |-> tf]

\* sorted(prepared_statement_parameters, key=lambda psp: psp.index): a
\* stable sort by index
RECURSIVE InsertByIndex(_, _)
InsertByIndex(sorted, p) ==
    IF sorted = <<>> THEN <<p>>
    ELSE IF p.index < Head(sorted).index THEN <<p>> \o sorted
    ELSE <<Head(sorted)>> \o InsertByIndex(Tail(sorted), p)

RECURSIVE SortedByIndex(_)
SortedByIndex(ps) ==
    IF ps = <<>> THEN <<>>
    ELSE InsertByIndex(SortedByIndex(SubSeq(ps, 1, Len(ps) - 1)), ps[Len(ps)])

\* a variant of PkNames that takes the parameters as they are listed
PkNamesUnsorted(lookup) ==
    [i \in 1..Len(lookup.prepared_statement_parameters) |->
        lookup.prepared_statement_parameters[i].name]

PkNames(lookup) ==
    LET sorted == SortedByIndex(lookup.prepared_statement_parameters)
    IN  [i \in 1..Len(sorted) |-> sorted[i].name]

\* str(query_online).replace("\n", " ")
ReplaceNewlines(q) == [i \in 1..Len(q) |-> IF q[i] = "nl" THEN "sp" ELSE q[i]]

\* re.sub(r"^(.*?)\?", r"\1:" + pk_name, query_online): the first "?" of the
\* text becomes the named placeholder; a text without "?" is left as it is
SubFirstPlaceholder(q, pk_name) ==
    IF \E i \in 1..Len(q) : q[i] = "?"
    THEN LET first == CHOOSE i \in 1..Len(q) :
                        q[i] = "?" /\ \A j \in 1..(i - 1) : q[j] # "?"
         IN  [i \in 1..Len(q) |-> IF i = first THEN ":" \o pk_name ELSE q[i]]
    ELSE q

RECURSIVE RewriteQuery(_, _)
RewriteQuery(q, pk_names) ==
    IF pk_names = <<>> THEN q
    ELSE RewriteQuery(SubFirstPlaceholder(q, Head(pk_names)), Tail(pk_names))

\* sql.text(query): the bind parameters the text defines are its named
\* placeholders
TextBindNames(q) == {n \in Names : \E i \in 1..Len(q) : q[i] = ":" \o n}

\* query_online.bindparams(*[bindparam(pk_name, expanding=True) ...]) raises
\* ArgumentError for a name the text does not define
BindParamsFails(q, pk_names) == \E n \in SeqRange(pk_names) : n \notin TextBindNames(q)

\* the cached statement of one lookup
Statement(lookup, batch) ==
    LET pk_names == PkNames(lookup)
        q == RewriteQuery(ReplaceNewlines(lookup.query_online), pk_names)
    IN  [text |-> q,
         expanding |-> IF batch THEN SeqRange(pk_names) ELSE {}]

\* a variant of AddKeys that keeps the names of the latest lookup only
AddKeysReplacing(keys, pk_names) == SeqRange(pk_names)

\* training_dataset.serving_vector_keys.add(pk_name) for every parameter name
\* of a lookup (line 306)
AddKeys(keys, pk_names) == keys \cup SeqRange(pk_names)

\* the loop over the service's answer: the dict of statements, the serving
\* keys, and whether bindparams raised
RECURSIVE BuildStatements(_, _, _, _)
BuildStatements(lookups, batch, dict, keys) ==
    IF lookups = <<>> THEN [err |-> "", dict |-> dict, keys |-> keys]
    ELSE LET lookup == Head(lookups)
             pk_names == PkNames(lookup)
             stmt == Statement(lookup, batch)
         IN  IF batch /\ BindParamsFails(stmt.text, pk_names)
             THEN [err |-> "ArgumentError", dict |-> dict,
                   keys |-> AddKeys(keys, pk_names)]
             ELSE BuildStatements(Tail(lookups), batch,
                                  DictPut(dict, lookup.prepared_statement_index, stmt),
                                  AddKeys(keys, pk_names))

\* a variant of IsBatchSize that takes a batch of one for a batch
IsBatchSizeFromOne(batch_size) == ~IsNone(batch_size) /\ Get(batch_size) >= 1

\* batch_size is not None and batch_size > 1
IsBatchSize(batch_size) == ~IsNone(batch_size) /\ Get(batch_size) > 1

InitFailPoints == {"none", "connector", "statements", "transformation"}

\* a variant of Reset that clears nothing
ResetSkipped(td, batch_size) ==
    IF IsBatchSize(batch_size) THEN [td EXCEPT !.serving_batch_size = batch_size]
    ELSE td

\* lines 266-276: the serving state is cleared, and the batch size is
\* recorded when the mode is Batch
Reset(td, batch_size) ==
    Dataset(None, None, None,
            IF IsBatchSize(batch_size) THEN batch_size ELSE None,
            td.transformation_functions)

\* init_prepared_statement(training_dataset, batch_size, external) on the
\* dataset td, the collaborators answering env.  The result: the dataset
\* afterwards, the error raised ("" for none) and the collaborator calls made
\* (engines created, the batch flag sent to the metadata service).
InitPreparedStatement(td, batch_size, external, env) ==
    LET batch == IsBatchSize(batch_size)
        reset == Reset(td, batch_size)
        mysql_engine == [external |-> external]
        built == BuildStatements(env.lookups, batch, <<>>, {})
        out(d, e, eng, asked) ==
            [td |-> d, err |-> e, engines |-> eng, batch_asked |-> asked]
    IN  IF env.fail = "connector"
        THEN out(reset, "ConnectionError", 0, None)
        ELSE IF env.fail = "statements"
        THEN out(reset, "RestAPIError", 1, Some(batch))
        ELSE IF built.err # ""
        THEN out(reset, built.err, 1, Some(batch))
        ELSE IF env.fail = "transformation"
        THEN out(reset, "RestAPIError", 1, Some(batch))
        ELSE out(Dataset(Some(mysql_engine), Some(built.dict), Some(built.keys),
                         reset.serving_batch_size, env.tfs),
                 "", 1, Some(batch))

\* The collaborators' answers to one init: where it fails, the lookups and the
\* transformations.
InitEnv(f, l, t) == [fail |-> f, lookups |-> l, tfs |-> t]

\* the batch sizes asked of init
BatchSizes == {None} \cup {Some(n) : n \in -1..MaxLen}

\* The routing and the failure of one init.  A failing init is drawn with
\* internal routing: it stores no engine.
InitChoices ==
    {[external |-> x, fail |-> "none"] : x \in BOOLEAN}
    \cup {[external |-> FALSE, fail |-> f] : f \in InitFailPoints \ {"none"}}

----------------------------------------------------------------------------
(* The online store.  A value of a result row is symbolic: it records the  *)
(* lookup (by index) and the requested entity it belongs to, its position  *)
(* in the result, its column, how it is stored, and what was done to it.   *)

Cell(idx, ent, rn, col, raw) ==
    [lk |-> idx, ent |-> ent, rn |-> rn, col |-> col, raw |-> raw, ops |-> <<>>]

\* the columns a statement selects
Columns(text) ==
    LET s == CHOOSE i \in 1..Len(text) : text[i] = "SELECT"
        f == CHOOSE i \in 1..Len(text) : text[i] = "FROM"
    IN  SubSeq(text, s + 1, f - 1)

\* mysql_conn.execute(prepared_statement, entry).fetchall(): one row per
\* element of ents (the entity each row belongs to), in that order; a
\* complex-typed column holds a binary blob, corrupt or not
ResultRows(idx, stmt, ents, complex, corrupt) ==
    LET cols == Columns(stmt.text)
    IN  [r \in 1..Len(ents) |->
            [c \in 1..Len(cols) |->
                Cell(idx, ents[r], r - 1, cols[c],
                     IF cols[c] \in SeqRange(complex)
                     THEN (IF corrupt THEN "bad" ELSE "blob")
                     ELSE "plain")]]

\* the rows the store may hold for the requested entities 0..n-1: any subset
\* of the entities, returned in request order
RECURSIVE AscendingSeq(_)
AscendingSeq(S) ==
    IF S = {} THEN <<>>
    ELSE LET m == CHOOSE x \in S : \A y \in S : x <= y
         IN  <<m>> \o AscendingSeq(S \ {m})

BatchRowAnswers(n) == {AscendingSeq(S) : S \in SUBSET (0..(n - 1))}
\* the rows the store may return for one entity
SingleRowAnswers == {[i \in 1..r |-> 0] : r \in 0..MaxRows}

----------------------------------------------------------------------------
(* deserialize_complex_features and _apply_transformation.                 *)

RowHas(row, col) == \E i \in 1..Len(row) : row[i].col = col
RowSet(row, col, val) == [i \in 1..Len(row) |-> IF row[i].col = col THEN val ELSE row[i]]
RowGet(row, col) == row[CHOOSE i \in 1..Len(row) : row[i].col = col]

\* a variant of Decodes that reads any bytes as a value
DecodesAnything(cell) == TRUE

\* schema.read(decoder) of one value: only an untouched, well-formed blob decodes
Decodes(cell) == cell.raw = "blob" /\ cell.ops = <<>>
Decoded(cell) == [cell EXCEPT !.ops = Append(@, "decode")]
\* transformation_fn(value)
Transformed(cell) == [cell EXCEPT !.ops = Append(@, "transform")]

\* deserialize_complex_features(feature_schemas, row_dict): feature_schemas
\* is the sequence of complex feature names
RECURSIVE DeserializeComplexFeatures(_, _)
DeserializeComplexFeatures(feature_schemas, row_dict) ==
    IF feature_schemas = <<>> THEN [err |-> "", row |-> row_dict]
    ELSE LET feature_name == Head(feature_schemas)
         IN  IF ~RowHas(row_dict, feature_name)
             THEN [err |-> "KeyError", row |-> row_dict]
             ELSE IF ~Decodes(RowGet(row_dict, feature_name))
             THEN [err |-> "DecodeError", row |-> row_dict]
             ELSE DeserializeComplexFeatures(
                      Tail(feature_schemas),
                      RowSet(row_dict, feature_name,
                             Decoded(RowGet(row_dict, feature_name))))

\* a variant of ApplyTransformation that transforms every field of the row
ApplyTransformationToAll(transformation_fns, row_dict, raises) ==
    [err |-> "", row |-> [i \in 1..Len(row_dict) |-> Transformed(row_dict[i])]]

\* _apply_transformation(transformation_fns, row_dict); raises: whether the
\* transformation functions raise on this row
ApplyTransformation(transformation_fns, row_dict, raises) ==
    IF raises /\ \E i \in 1..Len(row_dict) : row_dict[i].col \in transformation_fns
    THEN [err |-> "TransformationError", row |-> row_dict]
    ELSE [err |-> "",
          row |-> [i \in 1..Len(row_dict) |->
                     IF row_dict[i].col \in transformation_fns
                     THEN Transformed(row_dict[i])
                     ELSE row_dict[i]]]

----------------------------------------------------------------------------
(* get_serving_vector.                                                     *)

\* a variant of IsInitialized for which the cache never counts as set
NeverInitialized(td) == FALSE

IsInitialized(td) == ~IsNone(td.prepared_statements)

\* serving_batch_size is not None and serving_batch_size > 1
IsBatchMode(td) == ~IsNone(td.serving_batch_size) /\ Get(td.serving_batch_size) > 1

\* The batch size the auto-initialization asks for (lines 166-173):
\* hasattr(v0, "__iter__") and isinstance(list(v0), list), where list(v0) is
\* a list for every iterable v0
AutoInitBatchSize(entry) ==
    LET v0 == EntryVals(entry)[1]
    IN  IF HasIter(v0) /\ TRUE THEN Some(v0.len) ELSE None

\* the batch sizes the auto-initialization asks for, and the entries that
\* make it ask for each
AutoInitBatchSizes == {AutoInitBatchSize(e) : e \in Entries \ {<<>>}}
EntriesAutoInit(batch_size) ==
    {e \in Entries \ {<<>>} : AutoInitBatchSize(e) = batch_size}

\* a variant of ListDiffersFromInt that looks for the size among the lengths
ListLacksSize(batch_sizes, n) == n \notin batch_sizes

\* batch_sizes != training_dataset.serving_batch_size compares a list with
\* an int: they are never equal
ListDiffersFromInt(batch_sizes, n) == TRUE

\* not entry.keys() == training_dataset.serving_keys (line 217); no key set
\* equals None
KeysDiffer(td, entry) ==
    IsNone(td.serving_keys) \/ EntryKeys(entry) # Get(td.serving_keys)

\* The checks of lines 175-220 on an initialized dataset: the error raised,
\* "" for none.
PreCheck(td, entry) ==
    LET vals == EntryVals(entry)
        batch_sizes == {vals[i].len : i \in 1..Len(vals)}
    IN  IF entry = <<>> THEN "IndexError"
        ELSE IF IsBatchMode(td)
        THEN IF ~HasIter(vals[1]) /\ ~IsList(vals[1]) THEN "ServingModeMismatch"
             ELSE IF \E i \in 1..Len(vals) : ~HasLen(vals[i]) THEN "TypeError"
             ELSE IF Cardinality(batch_sizes) # 1
                     /\ ListDiffersFromInt(batch_sizes, Get(td.serving_batch_size))
             THEN "ServingModeMismatch"
             ELSE IF KeysDiffer(td, entry) THEN "KeyMismatch"
             ELSE ""
        ELSE IF HasIter(vals[1]) /\ IsList(vals[1]) THEN "ServingModeMismatch"
             ELSE IF KeysDiffer(td, entry) THEN "KeyMismatch"
             ELSE ""

\* What the collaborators do during the lookups: fail says what fails
\* (nothing, the schema registry, or the execution, the decoding or a
\* transformation of the lookup executed at position at), rows gives for
\* each executed lookup the entities of its result rows.
NoFail == [kind |-> "none", at |-> 0]
Fail(kind, at) == [kind |-> kind, at |-> at]

\* a variant of Stitch that keeps only the last lookup's row in a slot
StitchOverwrite(batch_dicts, order_in_batch, values) ==
    DictPut(batch_dicts, order_in_batch, values)

\* batch stitching (lines 249-252): the row's values extend the vector of
\* the row's position, or start it
Stitch(batch_dicts, order_in_batch, values) ==
    IF DictHas(batch_dicts, order_in_batch)
    THEN DictPut(batch_dicts, order_in_batch,
                 DictGet(batch_dicts, order_in_batch) \o values)
    ELSE DictPut(batch_dicts, order_in_batch, values)

\* a variant of ProcessRow that transforms the row before it decodes it
ProcessRowTransformFirst(complex_features, transformation_fns, row, raises) ==
    LET tr == ApplyTransformation(transformation_fns, row, raises)
    IN  [err |-> tr.err,
         row |-> [i \in 1..Len(tr.row) |->
                    IF tr.row[i].col \in SeqRange(complex_features)
                    THEN Decoded(tr.row[i]) ELSE tr.row[i]]]

\* one row of a result (lines 234-245): the complex features are decoded,
\* then the transformations are applied to the decoded row
ProcessRow(complex_features, transformation_fns, row, raises) ==
    LET des == DeserializeComplexFeatures(complex_features, row)
        tr == ApplyTransformation(transformation_fns, des.row, raises)
    IN  IF des.err # "" THEN [err |-> des.err, row |-> row]
        \* `"No data ..." + entry` adds a dict to a str
        ELSE IF des.row = <<>> THEN [err |-> "TypeError", row |-> row]
        ELSE tr

\* the loop over the rows of one result (lines 233-253)
RECURSIVE RowLoop(_, _, _, _, _, _)
RowLoop(rows, complex_features, transformation_fns, raises, batch, st) ==
    IF rows = <<>> \/ st.err # "" THEN st
    ELSE LET done == ProcessRow(complex_features, transformation_fns, Head(rows), raises)
             bd == st.batch_dicts
             o == st.order_in_batch
         IN  IF done.err # "" THEN [st EXCEPT !.err = done.err]
             ELSE RowLoop(Tail(rows), complex_features, transformation_fns, raises, batch,
                     [err |-> "",
                      result_dict |-> done.row,
                      batch_dicts |->
                          IF ~batch THEN bd ELSE Stitch(bd, o, done.row),
                      order_in_batch |-> o + 1])

\* a variant of Execute that tries a failed execution a second time
ExecuteRetries(acc, idx, fails) ==
    [acc EXCEPT !.executed = IF fails THEN @ \o <<idx, idx>> ELSE Append(@, idx),
                !.connects = IF fails THEN @ + 2 ELSE @ + 1,
                !.releases = IF fails THEN @ + 2 ELSE @ + 1,
                !.err = IF fails THEN "OperationalError" ELSE @]

\* a variant of Execute that keeps the connection when the execution fails
ExecuteLeaksOnError(acc, idx, fails) ==
    [acc EXCEPT !.executed = Append(@, idx),
                !.connects = @ + 1,
                !.releases = IF fails THEN @ ELSE @ + 1,
                !.err = IF fails THEN "OperationalError" ELSE @]

\* lines 230-231: a connection is checked out of the engine, the statement
\* of lookup idx is executed on it, and the with block gives the connection
\* back, also when the execution raises
Execute(acc, idx, fails) ==
    [acc EXCEPT !.executed = Append(@, idx),
                !.connects = @ + 1,
                !.releases = @ + 1,
                !.err = IF fails THEN "OperationalError" ELSE @]

\* a variant of StartOrderInBatch that goes on after the slots made so far
StartOrderContinues(batch_dicts) == Len(batch_dicts)

\* order_in_batch = 0 at the start of every lookup (line 228), whatever slots
\* exist
StartOrderInBatch(batch_dicts) == 0

\* the loop over the cached statements (lines 227-256), from position p on
RECURSIVE StatementLoop(_, _, _, _, _, _)
StatementLoop(td, complex_features, batch, genv, p, acc) ==
    LET stmts == Get(td.prepared_statements)
    IN  IF p > Len(stmts) \/ acc.err # "" THEN acc
        \* None has no connect() (line 230)
        ELSE IF IsNone(td.prepared_statement_engine)
        THEN [acc EXCEPT !.err = "AttributeError"]
        ELSE LET sent == Execute(acc, stmts[p].k, genv.fail = Fail("execute", p))
                 rows == ResultRows(stmts[p].k, stmts[p].v, genv.rows[p],
                                    complex_features, genv.fail = Fail("decode", p))
                 rl == RowLoop(rows, complex_features, td.transformation_functions,
                               genv.fail = Fail("transform", p), batch,
                               [err |-> "", result_dict |-> <<>>,
                                batch_dicts |-> acc.batch_dicts,
                                order_in_batch |-> StartOrderInBatch(acc.batch_dicts)])
             IN  IF sent.err # "" THEN sent
                 ELSE IF rl.err # "" THEN [sent EXCEPT !.err = rl.err]
                 ELSE StatementLoop(td, complex_features, batch, genv, p + 1,
                         [sent EXCEPT
                             !.batch_dicts = rl.batch_dicts,
                             !.serving_vector =
                                 IF batch THEN @ ELSE @ \o rl.result_dict])

\* What a call did: the error raised ("" for none), whether it ran in batch
\* mode, the vectors returned (one in single mode), the lookups sent to the
\* store in order, and the connections checked out and released.
Outcome(err, batch, vectors, executed, connects, releases) ==
    [err |-> err, batch |-> batch, vectors |-> vectors, executed |-> executed,
     connects |-> connects, releases |-> releases]

\* a variant of Rejected in which a statement ran before the raise
RejectedAfterQuery(err, batch) == Outcome(err, batch, <<>>, <<0>>, 1, 1)

\* a raise of the checks of lines 175-220: the loop of line 227 is not reached
Rejected(err, batch) == Outcome(err, batch, <<>>, <<>>, 0, 0)

\* get_serving_vector on an initialized dataset (lines 175-262)
ServeVector(td, complex_features, entry, genv) ==
    LET batch == IsBatchMode(td)
        pre == PreCheck(td, entry)
        run == StatementLoop(td, complex_features, batch, genv, 1,
                   [err |-> "", serving_vector |-> <<>>, batch_dicts |-> <<>>,
                    executed |-> <<>>, connects |-> 0, releases |-> 0])
    IN  IF pre # "" THEN Rejected(pre, batch)
        ELSE IF genv.fail = Fail("schema", 0)
        THEN Outcome("SchemaError", batch, <<>>, <<>>, 0, 0)
        ELSE IF run.err # ""
        THEN Outcome(run.err, batch, <<>>, run.executed, run.connects, run.releases)
        ELSE Outcome("", batch,
                     IF batch THEN DictValues(run.batch_dicts)
                     ELSE <<run.serving_vector>>,
                     run.executed, run.connects, run.releases)

\* The answers the collaborators may give to the lookups of a call that
\* passes the checks.  Failures are drawn with every requested row present.
RowAnswers(td, entry) ==
    IF IsBatchMode(td) THEN BatchRowAnswers(EntryVals(entry)[1].len)
    ELSE SingleRowAnswers

FullRows(td, entry) ==
    IF IsBatchMode(td) THEN AscendingSeq(0..(EntryVals(entry)[1].len - 1))
    ELSE <<0>>

ServeEnvs(td, entry) ==
    LET n == Len(Get(td.prepared_statements))
        full == [p \in 1..n |-> FullRows(td, entry)]
    IN  IF PreCheck(td, entry) # ""
        THEN {[fail |-> NoFail, rows |-> <<>>]}
        ELSE {[fail |-> NoFail, rows |-> r] : r \in [1..n -> RowAnswers(td, entry)]}
             \cup {[fail |-> Fail("schema", 0), rows |-> full]}
             \cup {[fail |-> Fail(kind, p), rows |-> full] :
                     kind \in {"execute", "decode", "transform"}, p \in 1..n}

----------------------------------------------------------------------------
(* The state machine: serialized calls on one training dataset.  A         *)
(* behaviour is followed up to its first get_serving_vector call: that     *)
(* call leaves the dataset as it was, or as the initialization it ran      *)
(* leaves it, so the calls after it start from a dataset that a sequence   *)
(* of init calls reaches as well.                                          *)

\* the dataset as the variables hold it
Td == Dataset(prepared_statement_engine, prepared_statements, serving_keys,
              serving_batch_size, transformation_functions)

SetTd(td) ==
    /\ prepared_statement_engine' = td.prepared_statement_engine
    /\ prepared_statements' = td.prepared_statements
    /\ serving_keys' = td.serving_keys
    /\ serving_batch_size' = td.serving_batch_size
    /\ transformation_functions' = td.transformation_functions

\* the names a get_serving_vector call is recorded under: a first call, and
\* a call repeated with the entry of the call before it
GetOps == {"get", "get again"}

NoServeEnv == [fail |-> NoFail, rows |-> <<>>]
NoOutcome == Outcome("", FALSE, <<>>, <<>>, 0, 0)

\* the initialization a call ran: its arguments, the collaborators' answers
\* and what InitPreparedStatement reports
InitRun(batch_size, external, env, r) ==
    [batch_size |-> batch_size, external |-> external, env |-> env,
     err |-> r.err, engines |-> r.engines, batch_asked |-> r.batch_asked]

\* The last call: op is "new" (no call yet), "init" or "get"; entry is the
\* entry of a get; was_initialized tells whether the cache was set when the
\* call started; init is the initialization the call ran, if any; env is
\* what the collaborators answered to the lookups; out is the outcome.
Call(op, entry, was, init, env, out) ==
    [op |-> op, entry |-> entry, was_initialized |-> was, init |-> init,
     env |-> env, out |-> out]

Init ==
    /\ prepared_statement_engine = None
    /\ prepared_statements = None
    /\ serving_keys = None
    /\ serving_batch_size = None
    /\ transformation_functions = {}
    /\ \E w \in Worlds :
         /\ schema = w.schema
         /\ service = w.service
         /\ registry = w.registry
    /\ running = None
    /\ last = Call("new", <<>>, FALSE, None, NoServeEnv, NoOutcome)

\* training_dataset.init_prepared_statement(batch_size, external)
InitPreparedStatementCall ==
    /\ last.op \notin GetOps
    /\ \E batch_size \in BatchSizes, c \in InitChoices :
        LET env == InitEnv(c.fail, service, registry)
            r == InitPreparedStatement(Td, batch_size, c.external, env)
        IN  /\ SetTd(r.td)
            /\ last' = Call("init", <<>>, IsInitialized(Td),
                            Some(InitRun(batch_size, c.external, env, r)),
                            NoServeEnv,
                            Outcome(r.err, FALSE, <<>>, <<>>, 0, 0))
    /\ UNCHANGED <<schema, service, registry, running>>

\* training_dataset.get_serving_vector(entry, external), for an entry drawn
\* from entries; external is read only by the auto-initialization; op is the
\* name the call is recorded under
GetServingVector(op, entries) ==
    /\ \/ \* the cache is set (line 165 false)
          /\ IsInitialized(Td)
          /\ \E entry \in entries :
               \E genv \in ServeEnvs(Td, entry) :
                   last' = Call(op, entry, TRUE, None, genv,
                                ServeVector(Td, schema, entry, genv))
          /\ UNCHANGED <<prepared_statement_engine, prepared_statements, serving_keys,
                         serving_batch_size, transformation_functions>>
       \/ \* the cache is empty and the entry has no first value (line 166)
          /\ ~IsInitialized(Td)
          /\ <<>> \in entries
          /\ last' = Call(op, <<>>, FALSE, None, NoServeEnv,
                          Outcome("IndexError", FALSE, <<>>, <<>>, 0, 0))
          /\ UNCHANGED <<prepared_statement_engine, prepared_statements, serving_keys,
                         serving_batch_size, transformation_functions>>
       \/ \* the cache is empty: initialize from the first value, then serve
          /\ ~IsInitialized(Td)
          /\ \E batch_size \in AutoInitBatchSizes, c \in InitChoices :
               LET ienv == InitEnv(c.fail, service, registry)
                   r == InitPreparedStatement(Td, batch_size, c.external, ienv)
                   run == Some(InitRun(batch_size, c.external, ienv, r))
               IN  /\ SetTd(r.td)
                   /\ \E entry \in EntriesAutoInit(batch_size) \cap entries :
                        IF r.err # ""
                        THEN last' = Call(op, entry, FALSE, run, NoServeEnv,
                                          Outcome(r.err, FALSE, <<>>, <<>>, 0, 0))
                        ELSE \E genv \in ServeEnvs(r.td, entry) :
                                 last' = Call(op, entry, FALSE, run, genv,
                                              ServeVector(r.td, schema, entry, genv))
    /\ UNCHANGED <<schema, service, registry, running>>

\* a caller calls get_serving_vector with some entry
GetServingVectorCall ==
    /\ last.op \notin GetOps
    /\ GetServingVector("get", Entries)

Next == InitPreparedStatementCall \/ GetServingVectorCall

Spec == Init /\ [][Next]_vars

----------------------------------------------------------------------------
(* The template rewriter on generated templates: the metadata service      *)
(* answers one lookup whose WHERE clause has up to MaxParams placeholders, *)
(* on one line or with a line break before every clause, its parameters    *)
(* listed in any order.                                                    *)

Injective(s) == \A i, j \in 1..Len(s) : i # j => s[i] # s[j]
\* the sequences of n distinct names, and the orders of n things
InjSeqs(n) == {ns \in [1..n -> Names] : Injective(ns)}
Perms(n) == {o \in [1..n -> 1..n] : Injective(o)}

\* the clauses of the template whose k-th placeholder stands for ns[k]
RECURSIVE Conditions(_, _, _)
Conditions(ns, k, nl) ==
    IF k > Len(ns) THEN <<>>
    ELSE (IF nl THEN <<"nl">> ELSE <<>>)
         \o <<IF k = 1 THEN "WHERE" ELSE "AND", ns[k], "=", "?">>
         \o Conditions(ns, k + 1, nl)

Template(ns, nl) == <<"SELECT", "f1", "f2", "FROM", "fg0">> \o Conditions(ns, 1, nl)

\* the parameter of the k-th placeholder has index k - 1; order lists them
RewriteLookups ==
    UNION {{Lookup(0, Template(ns, nl),
                   [i \in 1..n |-> Param(ns[order[i]], order[i] - 1)]) :
               ns \in InjSeqs(n), order \in Perms(n), nl \in BOOLEAN} :
           n \in 0..MaxParams}

RewriteWorlds == {World(<<lookup>>, {}, <<>>) : lookup \in RewriteLookups}

RewriteInit ==
    /\ prepared_statement_engine = None
    /\ prepared_statements = None
    /\ serving_keys = None
    /\ serving_batch_size = None
    /\ transformation_functions = {}
    /\ \E w \in RewriteWorlds :
         /\ schema = w.schema
         /\ service = w.service
         /\ registry = w.registry
    /\ running = None
    /\ last = Call("new", <<>>, FALSE, None, NoServeEnv, NoOutcome)

RewriteSpec == RewriteInit /\ [][InitPreparedStatementCall]_vars

----------------------------------------------------------------------------
(* An init call taken statement by statement, and a get call of another    *)
(* thread placed between two of its statements.  The frame of the running  *)
(* init holds the line it is at and its locals.  The statements that touch *)
(* no field of the dataset (lines 277-321) are one step.                   *)

InitFrame(at, batch_size, external, mysql_engine, built) ==
    [at |-> at, batch_size |-> batch_size, external |-> external,
     mysql_engine |-> mysql_engine, built |-> built]

NoBuilt == [err |-> "", dict |-> <<>>, keys |-> {}]

\* the dataset after the statement at line f.at
AfterLine(td, f, tfs) ==
    CASE f.at = 267 -> [td EXCEPT !.prepared_statement_engine = None]
      [] f.at = 268 -> [td EXCEPT !.prepared_statements = None]
      [] f.at = 269 -> [td EXCEPT !.serving_keys = None]
      [] f.at = 270 -> [td EXCEPT !.serving_batch_size = None]
      [] f.at = 272 -> IF IsBatchSize(f.batch_size)
                       THEN [td EXCEPT !.serving_batch_size = f.batch_size]
                       ELSE td
      [] f.at = 277 -> td
      [] f.at = 324 -> [td EXCEPT !.transformation_functions = tfs]
      [] f.at = 330 -> [td EXCEPT !.prepared_statement_engine = Some(f.mysql_engine)]
      [] f.at = 331 -> [td EXCEPT !.prepared_statements = Some(f.built.dict)]
      [] f.at = 332 -> [td EXCEPT !.serving_keys = Some(f.built.keys)]

NextLine(at) ==
    CASE at = 267 -> 268 [] at = 268 -> 269 [] at = 269 -> 270 [] at = 270 -> 272
      [] at = 272 -> 277 [] at = 277 -> 324 [] at = 324 -> 330 [] at = 330 -> 331
      [] at = 331 -> 332

\* the frame after the statement at line f.at; None when the call is over,
\* by returning after line 332 or by the exception of line 318
StepFrame(f, lookups) ==
    IF f.at = 332 THEN None
    ELSE IF f.at = 277
    THEN LET built == BuildStatements(lookups, IsBatchSize(f.batch_size), <<>>, {})
         IN  IF built.err # "" THEN None
             ELSE Some(InitFrame(324, f.batch_size, f.external,
                                 [external |-> f.external], built))
    ELSE Some([f EXCEPT !.at = NextLine(@)])

\* a thread calls init_prepared_statement(batch_size, external)
ConcurrentInitStart ==
    /\ last.op # "get"
    /\ running = None
    /\ \E batch_size \in BatchSizes, external \in BOOLEAN :
         running' = Some(InitFrame(267, batch_size, external, None, NoBuilt))
    /\ UNCHANGED <<prepared_statement_engine, prepared_statements, serving_keys,
                   serving_batch_size, transformation_functions,
                   schema, service, registry, last>>

\* the running init executes its next statement
ConcurrentInitStep ==
    /\ last.op # "get"
    /\ running # None
    /\ SetTd(AfterLine(Td, Get(running), registry))
    /\ running' = StepFrame(Get(running), service)
    /\ UNCHANGED <<schema, service, registry, last>>

\* another thread runs get_serving_vector(entry) between two statements of
\* the running init, on a dataset whose cache is set (line 165 false); the
\* online store answers every requested row
ConcurrentGet ==
    /\ last.op # "get"
    /\ running # None
    /\ IsInitialized(Td)
    /\ \E entry \in Entries :
         LET genv == [fail |-> NoFail,
                      rows |-> IF PreCheck(Td, entry) # "" THEN <<>>
                               ELSE [p \in 1..Len(Get(prepared_statements)) |->
                                        FullRows(Td, entry)]]
         IN  last' = Call("get", entry, TRUE, None, genv,
                          ServeVector(Td, schema, entry, genv))
    /\ UNCHANGED <<prepared_statement_engine, prepared_statements, serving_keys,
                   serving_batch_size, transformation_functions,
                   schema, service, registry, running>>

ConcurrentNext == ConcurrentInitStart \/ ConcurrentInitStep \/ ConcurrentGet

ConcurrentSpec == Init /\ [][ConcurrentNext]_vars

----------------------------------------------------------------------------
(* Vocabulary of the properties.                                           *)

\* the last call was get_serving_vector
Got == last.op = "get"
\* ... and it returned (raised nothing)
Returned == Got /\ last.out.err = ""
\* ... and it reached the checks of lines 175-220 (its initialization, if
\* it ran one, succeeded)
Checked == Got /\ IsInitialized(Td)

SingleMode == IsInitialized(Td) /\ ~IsBatchMode(Td)
BatchMode == IsInitialized(Td) /\ IsBatchMode(Td)

LastVals == EntryVals(last.entry)
\* the entry is not empty and all its values are lists
ListEntry == last.entry # <<>> /\ \A i \in 1..Len(LastVals) : IsList(LastVals[i])
\* the entry has exactly the serving keys
RightKeys == IsInitialized(Td) /\ EntryKeys(last.entry) = Get(serving_keys)

\* the cached lookups in ascending index order
RECURSIVE SortedByKey(_)
SortedByKey(d) ==
    IF d = <<>> THEN <<>>
    ELSE LET m == CHOOSE i \in 1..Len(d) : \A j \in 1..Len(d) : d[i].k <= d[j].k
         IN  <<d[m]>> \o SortedByKey([i \in 1..(Len(d) - 1) |-> IF i < m THEN d[i] ELSE d[i + 1]])

RECURSIVE Flatten(_)
Flatten(ss) == IF ss = <<>> THEN <<>> ELSE Head(ss) \o Flatten(Tail(ss))

CachedByIndex == SortedByKey(Get(prepared_statements))

\* the number of columns all cached lookups contribute to a vector
TotalColumns == Len(Flatten([i \in 1..Len(CachedByIndex) |-> Columns(CachedByIndex[i].v.text)]))

\* the fields of a vector: for each value its lookup, the position of its
\* row in that lookup's result, and its column
Fields(vector) == [j \in 1..Len(vector) |-> <<vector[j].lk, vector[j].rn, vector[j].col>>]

\* the fields of row rn of every cached lookup, in lookup-index order, each
\* lookup's in column order
FieldsByIndex(rn) ==
    Flatten([i \in 1..Len(CachedByIndex) |->
                LET cols == Columns(CachedByIndex[i].v.text)
                IN  [c \in 1..Len(cols) |-> <<CachedByIndex[i].k, rn, cols[c]>>]])

\* the call ran all its lookups and nothing failed in the collaborators
AllRowsOf(n) == \A p \in 1..Len(last.env.rows) : Len(last.env.rows[p]) = n

----------------------------------------------------------------------------
(* C1..C10                                                                 *)

\* C1: in Single mode a call in which some cached lookup returns zero rows
\* raises and returns no vector, and every vector returned in Single mode
\* has as many fields as the cached lookups have columns in total.
C1_SingleEmptyLookupRaises ==
    (Checked /\ SingleMode) =>
        /\ (\E p \in 1..Len(last.out.executed) : last.env.rows[p] = <<>>)
              => (last.out.err # "" /\ last.out.vectors = <<>>)
        /\ Returned => Len(last.out.vectors[1]) = TotalColumns

\* C2: in Batch(n) mode an entry whose values are all sequences of one
\* common length L # n is rejected with ServingModeMismatch before any
\* statement is executed.  Stated for lists, with the right keys and no
\* collaborator failing.
C2_BatchSizeMismatchRejected ==
    (Checked /\ BatchMode /\ ListEntry /\ RightKeys /\ last.env.fail = NoFail
       /\ \A i \in 1..Len(LastVals) : LastVals[i].len = LastVals[1].len
       /\ LastVals[1].len # Get(serving_batch_size))
    => (last.out.err = "ServingModeMismatch" /\ last.out.executed = <<>>)

\* C3: in Single mode (after init with no batch size) an entry in which any
\* value, under whichever key, is a sequence is rejected with
\* ServingModeMismatch.  Stated for the sequences that are lists, with the
\* right keys and no collaborator failing.
C3_SingleRejectsAnySequence ==
    (Got /\ last.was_initialized /\ SingleMode /\ RightKeys
       /\ last.env.fail = NoFail
       /\ \E i \in 1..Len(LastVals) : IsList(LastVals[i]))
    => last.out.err = "ServingModeMismatch"

\* C4: in Batch mode (after init with a batch size n > 1) an entry in which
\* at least one value, under whichever key, is a scalar is rejected with
\* ServingModeMismatch and with no other error.  Stated for entries of
\* numbers and lists with the right keys.
C4_BatchRejectsAnyScalar ==
    (Got /\ last.was_initialized /\ BatchMode /\ RightKeys
       /\ (\A i \in 1..Len(LastVals) : (LastVals[i] = Num \/ IsList(LastVals[i])))
       /\ (\E i \in 1..Len(LastVals) : LastVals[i] = Num))
    => last.out.err = "ServingModeMismatch"

\* the shape of the entry matches the mode: all scalars in Single mode, all
\* sequences of the configured batch size in Batch mode
ShapeMatchesMode ==
    IF IsBatchMode(Td)
    THEN \A i \in 1..Len(LastVals) :
            IsSequence(LastVals[i]) /\ LastVals[i].len = Get(serving_batch_size)
    ELSE \A i \in 1..Len(LastVals) : IsScalar(LastVals[i])

\* C5: an entry whose shape matches the mode and whose key set differs from
\* the ServingKeys (the empty entry included) is rejected with KeyMismatch,
\* and a call gets past the key check only with the key sets equal.
C5_KeySetMustEqual ==
    Checked =>
        /\ (ShapeMatchesMode /\ EntryKeys(last.entry) # Get(serving_keys))
              => last.out.err = "KeyMismatch"
        /\ (last.out.executed # <<>> \/ Returned)
              => EntryKeys(last.entry) = Get(serving_keys)

\* C6: a call that returns in Batch(n) mode returns exactly n vectors, each
\* with as many fields as the cached lookups have columns in total.  Stated
\* for entries of n-element lists.
C6_BatchReturnsNVectors ==
    (Returned /\ BatchMode /\ ListEntry /\ ShapeMatchesMode) =>
        /\ Len(last.out.vectors) = Get(serving_batch_size)
        /\ \A i \in 1..Len(last.out.vectors) :
              Len(last.out.vectors[i]) = TotalColumns

\* C7: in Batch mode every value of output vector i (0-based) comes from a
\* row of the i-th requested entity.  Stated for entries of n-element lists.
C7_BatchValuesBelongToEntity ==
    (Returned /\ BatchMode /\ ListEntry /\ ShapeMatchesMode) =>
        \A i \in 1..Len(last.out.vectors) :
            \A j \in 1..Len(last.out.vectors[i]) :
                last.out.vectors[i][j].ent = i - 1

\* C8: the cached statements are executed in strictly ascending order of
\* their lookup index, and the fields of every returned vector appear in
\* that order.
C8_ExecutionInIndexOrder ==
    (Got /\ last.env.fail = NoFail) =>
        /\ \A i, j \in 1..Len(last.out.executed) :
              i < j => last.out.executed[i] < last.out.executed[j]
        /\ \A v \in 1..Len(last.out.vectors) :
              \A i, j \in 1..Len(last.out.vectors[v]) :
                  i < j => last.out.vectors[v][i].lk <= last.out.vectors[v][j].lk

\* C9: in Single mode, when every lookup returns one row, the vector is the
\* concatenation, in lookup-index order, of each lookup's row values in
\* column order ([a,b,c,d] for lookups 0 and 1 with fields [a,b] and [c,d]).
C9_SingleVectorInIndexOrder ==
    (Returned /\ SingleMode /\ AllRowsOf(1))
    => Fields(last.out.vectors[1]) = FieldsByIndex(0)

\* the fields of row rn of every lookup the last call executed, in the order
\* of execution, each lookup's in column order
FieldsAsExecuted(rn) ==
    Flatten([p \in 1..Len(last.out.executed) |->
                LET lk == last.out.executed[p]
                    cols == Columns(DictGet(Get(prepared_statements), lk).text)
                IN  [c \in 1..Len(cols) |-> <<lk, rn, cols[c]>>]])

\* C10: in Batch(n) mode, when every lookup returns exactly n rows, n
\* vectors are returned and vector i is the first executed lookup's row i
\* fields followed by the second executed lookup's row i fields, and so on
\* for further lookups.  Stated for entries of n-element lists.
C10_BatchStitching ==
    (Returned /\ BatchMode /\ ListEntry /\ ShapeMatchesMode
       /\ AllRowsOf(Get(serving_batch_size)))
    => /\ Len(last.out.vectors) = Get(serving_batch_size)
       /\ \A i \in 1..Len(last.out.vectors) :
             Fields(last.out.vectors[i]) = FieldsAsExecuted(i - 1)

\* a Batch(2) call over two lookups, each returning two rows, has returned
C10_Witness ==
    /\ Returned /\ BatchMode /\ ListEntry /\ ShapeMatchesMode
    /\ Get(serving_batch_size) = 2
    /\ AllRowsOf(2)
    /\ Len(last.out.executed) = 2
    /\ Len(last.out.vectors) = 2

----------------------------------------------------------------------------
(* C11..C20                                                                *)

\* a dataset on which nothing was ever initialized
FreshDataset == Dataset(None, None, None, None, {})

\* the initialization the last call ran (an init call, or the
\* auto-initialization of a get call)
RanInit == last.init # None
LastInit == Get(last.init)
InitSucceeded == RanInit /\ LastInit.err = ""

\* C11: after a successful init the cache, the connection, the ServingKeys
\* and the mode are those the same init produces on a fresh dataset, whatever
\* the calls before it left: the engine is the one this init created and the
\* batch size is this init's or unset.
C11_InitDependsOnlyOnItsArguments ==
    InitSucceeded =>
        /\ Td = InitPreparedStatement(FreshDataset, LastInit.batch_size,
                                      LastInit.external, LastInit.env).td
        /\ Get(prepared_statement_engine).external = LastInit.external
        /\ serving_batch_size \in {None, LastInit.batch_size}
        /\ SeqRange(DictKeys(Get(prepared_statements)))
              = {LastInit.env.lookups[i].prepared_statement_index :
                    i \in 1..Len(LastInit.env.lookups)}

\* a single-mode init has succeeded on a dataset that was initialized before
C11_Witness ==
    /\ last.op = "init" /\ last.was_initialized /\ InitSucceeded
    /\ LastInit.batch_size = None
    /\ Len(Get(prepared_statements)) = 2

\* C12: an init that fails while acquiring the connection or fetching the
\* lookup templates leaves the statement cache, the connection and the
\* ServingKeys unset.
C12_FailedInitLeavesNoCache ==
    (RanInit /\ LastInit.env.fail \in {"connector", "statements"}) =>
        /\ LastInit.err # ""
        /\ prepared_statements = None
        /\ prepared_statement_engine = None
        /\ serving_keys = None

\* an init has failed fetching the templates on a dataset that was initialized
C12_Witness ==
    /\ last.op = "init" /\ last.was_initialized
    /\ RanInit /\ LastInit.env.fail = "statements"
    /\ prepared_statements = None

\* C13: when a get call returns or raises, every connection it checked out
\* has been given back, and a call on an initialized dataset leaves the
\* engine in place.
C13_ConnectionsReleased ==
    [][last'.op = "get" =>
          /\ last'.out.connects = last'.out.releases
          /\ IsInitialized(Td) => prepared_statement_engine' = prepared_statement_engine
      ]_vars

\* a get call has raised because the execution of its first statement failed
C13_Witness ==
    /\ Got /\ last.was_initialized
    /\ last.env.fail = Fail("execute", 1)
    /\ last.out.err = "OperationalError"
    /\ last.out.connects = 1

\* C14: a get call that reaches the online store checks out exactly one
\* connection, whatever the number of cached lookups.
C14_OneConnectionPerCall ==
    (Got /\ last.out.executed # <<>>) => last.out.connects = 1

\* C15: a get call rejected with ServingModeMismatch or KeyMismatch has
\* executed no statement and checked out no connection.
C15_RejectedBeforeAnyQuery ==
    (Got /\ last.out.err \in {"ServingModeMismatch", "KeyMismatch"}) =>
        /\ last.out.executed = <<>>
        /\ last.out.connects = 0

\* a get call on a dataset with two cached lookups was rejected for its keys
C15_Witness ==
    /\ Checked /\ last.out.err = "KeyMismatch"
    /\ Len(Get(prepared_statements)) = 2

\* the columns of the lookup a call executes at position p
ColumnsAt(p) == SeqRange(Columns(Get(prepared_statements)[p].v.text))

\* C16: a call in which the execution, the decoding or a transformation of
\* some lookup fails raises; a call that raises returns no vector; and no
\* returned vector holds a value whose decoding failed.
C16_FailureAbortsWholeCall ==
    Got =>
        /\ last.out.err # "" => last.out.vectors = <<>>
        /\ last.env.fail.kind = "execute" => last.out.err # ""
        /\ (last.env.fail.kind = "decode"
              /\ ColumnsAt(last.env.fail.at) \cap SeqRange(schema) # {})
              => last.out.err # ""
        /\ (last.env.fail.kind = "transform"
              /\ ColumnsAt(last.env.fail.at) \cap transformation_functions # {})
              => last.out.err # ""
        /\ \A v \in 1..Len(last.out.vectors) :
              \A j \in 1..Len(last.out.vectors[v]) :
                  last.out.vectors[v][j].raw # "bad"

\* a call has raised in its second lookup, after the first one succeeded
C16_Witness ==
    /\ Got
    /\ last.env.fail = Fail("execute", 2)
    /\ last.out.executed = <<0, 1>>
    /\ last.out.err # "" /\ last.out.vectors = <<>>

\* the positions of the positional placeholders of a template, from the left
PlaceholderPositions(q) == AscendingSeq({i \in 1..Len(q) : q[i] = "?"})
\* the name whose declared index is the k-th smallest (indices 0..N-1)
NameAt(lookup, k) ==
    (CHOOSE p \in SeqRange(lookup.prepared_statement_parameters) : p.index = k - 1).name
Count(q, tok) == Cardinality({i \in 1..Len(q) : q[i] = tok})

\* C17: for a template with N positional placeholders and N parameter
\* names, the cached statement has the named placeholder of the name of
\* k-th index in the place of the k-th placeholder from the left, holds each
\* named placeholder exactly once and no positional placeholder, and is
\* otherwise the template with every newline turned into a space.
C17_PlaceholderRewrite ==
    IsInitialized(Td) =>
        \A i \in 1..Len(service) :
            LET lookup == service[i]
                q == lookup.query_online
                N == Len(lookup.prepared_statement_parameters)
                pos == PlaceholderPositions(q)
                text == DictGet(Get(prepared_statements),
                                lookup.prepared_statement_index).text
            IN  Len(pos) = N =>
                    /\ Len(text) = Len(q)
                    /\ Count(text, "?") = 0
                    /\ \A k \in 1..N :
                          /\ text[pos[k]] = ":" \o NameAt(lookup, k)
                          /\ Count(text, ":" \o NameAt(lookup, k)) = 1
                    /\ \A j \in 1..Len(q) :
                          q[j] # "?" => text[j] = (IF q[j] = "nl" THEN "sp" ELSE q[j])

\* a two-line template with two placeholders, its parameters listed against
\* their indices, has been rewritten and cached
C17_Witness ==
    /\ IsInitialized(Td)
    /\ Len(service[1].prepared_statement_parameters) = 2
    /\ service[1].prepared_statement_parameters[1].index = 1
    /\ Count(service[1].query_online, "nl") = 2
    /\ Count(service[1].query_online, "?") = 2

\* the template of a lookup has more or fewer placeholders than names
CountMismatch(lookup) ==
    Count(lookup.query_online, "?") # Len(lookup.prepared_statement_parameters)

\* C18: an init whose collaborators all answer, and in which some lookup's
\* template has a number of placeholders different from the number of its
\* parameter names, fails with MalformedTemplate and publishes no cache.
C18_MismatchFailsInit ==
    (RanInit /\ LastInit.env.fail = "none"
       /\ \E i \in 1..Len(LastInit.env.lookups) : CountMismatch(LastInit.env.lookups[i]))
    => (LastInit.err = "MalformedTemplate" /\ prepared_statements = None)

\* the parameter names of the lookup of index idx in the service's answer
NamesOfLookup(lookups, idx) ==
    UNION {{lookups[i].prepared_statement_parameters[j].name :
               j \in 1..Len(lookups[i].prepared_statement_parameters)} :
           i \in {i \in 1..Len(lookups) : lookups[i].prepared_statement_index = idx}}

\* C19: the mode is Batch(batch_size) exactly when batch_size is present and
\* greater than 1; the batch flag sent to the metadata service, the recorded
\* batch size and the expanding marks of the cached statements agree with it.
C19_ModeSelection ==
    RanInit =>
        LET bs == LastInit.batch_size
            wantBatch == bs # None /\ Get(bs) > 1
            stmts == Get(prepared_statements)
        IN  /\ LastInit.batch_asked \in {None, Some(wantBatch)}
            /\ InitSucceeded =>
                  /\ LastInit.batch_asked = Some(wantBatch)
                  /\ IsBatchMode(Td) <=> wantBatch
                  /\ serving_batch_size = (IF wantBatch THEN bs ELSE None)
                  /\ \A i \in 1..Len(stmts) :
                        stmts[i].v.expanding =
                            (IF IsBatchMode(Td)
                             THEN NamesOfLookup(LastInit.env.lookups, stmts[i].k)
                             ELSE {})

\* an init with batch size 2 has cached two statements with expanding parameters
C19_Witness ==
    /\ last.op = "init" /\ InitSucceeded
    /\ LastInit.batch_size = Some(2)
    /\ Len(Get(prepared_statements)) = 2
    /\ Get(prepared_statements)[2].v.expanding = {"k1", "k2"}

\* C20: a get call on a dataset with an empty cache initializes it first,
\* with the length of the entry's first value as batch size when that value
\* is a sequence and with no batch size when it is a scalar; a get call on a
\* dataset whose cache is set runs no initialization.
C20_AutoInitFromFirstValue ==
    Got =>
        /\ last.was_initialized => ~RanInit
        /\ (~last.was_initialized /\ last.entry # <<>>) =>
              /\ RanInit
              /\ IsSequence(LastVals[1]) => LastInit.batch_size = Some(LastVals[1].len)
              /\ IsScalar(LastVals[1]) => LastInit.batch_size = None

----------------------------------------------------------------------------
(* C21..C30                                                                *)

\* the dataset as the next state holds it
TdNext == Dataset(prepared_statement_engine', prepared_statements', serving_keys',
                  serving_batch_size', transformation_functions')

\* what an initialization produces on a fresh dataset
ProductOf(run) ==
    InitPreparedStatement(FreshDataset, run.batch_size, run.external, run.env).td

IsPrefix(s, t) == Len(s) <= Len(t) /\ \A i \in 1..Len(s) : s[i] = t[i]

\* C21: with serialized calls, a dataset whose cache is set holds cache,
\* ServingKeys, batch size and engine of one initialization, the most recent
\* successful one: a call leaves the cache set only by initializing
\* successfully, the state then being that initialization's product, or by
\* running no initialization and changing nothing; and a get call executes
\* statements only of the cache it leaves set.
C21_StateOfMostRecentInit ==
    [][/\ (last'.op = "get" /\ last'.out.executed # <<>>) =>
             /\ IsInitialized(TdNext)
             /\ IsPrefix(last'.out.executed, DictKeys(Get(prepared_statements')))
       /\ IsInitialized(TdNext) =>
             \/ /\ last'.init # None
                /\ Get(last'.init).err = ""
                /\ TdNext = ProductOf(Get(last'.init))
             \/ /\ last'.init = None
                /\ TdNext = Td
      ]_vars

\* a batch-mode get call on a dataset initialized by an earlier call has
\* executed both cached statements and returned
C21_Witness ==
    /\ Returned /\ last.was_initialized /\ BatchMode
    /\ last.out.executed = <<0, 1>>

\* the states a completed init leaves a dataset of this world in
CompleteStates ==
    {r.td : r \in {ri \in {InitPreparedStatement(FreshDataset, bs, x,
                                                 InitEnv("none", service, registry)) :
                              bs \in BatchSizes, x \in BOOLEAN} : ri.err = ""}}

\* C22: a get call that runs between two statements of a running init sees
\* a complete state, the one before that init or the one after it: cache,
\* ServingKeys, engine and batch size of one completed init.
C22_ReaderSeesCompleteState ==
    (Got /\ running # None /\ last.entry # <<>>) => Td \in CompleteStates

\* every value of the entry is a number or a list
NumsAndLists == \A i \in 1..Len(LastVals) : LastVals[i] = Num \/ IsList(LastVals[i])

\* C23: the mode check comes before the key check: an entry that violates
\* the mode precondition and whose key set differs from the ServingKeys is
\* rejected with ServingModeMismatch.  Stated for entries of numbers and
\* lists.
C23_ModeCheckBeforeKeyCheck ==
    (Checked /\ NumsAndLists /\ ~ShapeMatchesMode
       /\ EntryKeys(last.entry) # Get(serving_keys))
    => last.out.err = "ServingModeMismatch"

\* C24: in Batch mode an entry whose values are sequences of at least two
\* different lengths is rejected with ServingModeMismatch before any
\* statement is executed, also when one of the lengths is the batch size.
C24_DifferingLengthsRejected ==
    (Checked /\ BatchMode /\ last.entry # <<>>
       /\ (\A i \in 1..Len(LastVals) : IsSequence(LastVals[i]))
       /\ (\E i, j \in 1..Len(LastVals) : LastVals[i].len # LastVals[j].len))
    => (last.out.err = "ServingModeMismatch" /\ last.out.executed = <<>>)

\* in Batch(2) mode an entry with the right keys, one list of the batch size
\* and one shorter list, has been rejected
C24_Witness ==
    /\ Checked /\ BatchMode /\ RightKeys /\ ListEntry
    /\ Get(serving_batch_size) = 2
    /\ Len(LastVals) = 2 /\ LastVals[1].len = 2 /\ LastVals[2].len = 1
    /\ last.out.err = "ServingModeMismatch"

C26_RejectedCallOnFreshDatasetHasNoEffect ==
    (Got /\ ~last.was_initialized
       /\ last.out.err \in {"ServingModeMismatch", "KeyMismatch"})
    => (Td = FreshDataset /\ ~RanInit)

\* the parameter names the metadata service declares for a lookup
ParameterNames(lookup) ==
    {lookup.prepared_statement_parameters[i].name :
        i \in 1..Len(lookup.prepared_statement_parameters)}

\* C27: after a successful init the ServingKeys are exactly the union of the
\* parameter names of all lookups the metadata service returned.
C27_ServingKeysAreUnionOfParameterNames ==
    InitSucceeded =>
        Get(serving_keys) =
            UNION {ParameterNames(LastInit.env.lookups[i]) :
                      i \in 1..Len(LastInit.env.lookups)}

\* an init call succeeded over two lookups that share k1, the one with k2
\* answered first
C27_Witness ==
    /\ InitSucceeded /\ last.op = "init"
    /\ Len(LastInit.env.lookups) = 2
    /\ ParameterNames(LastInit.env.lookups[1]) = {"k1", "k2"}
    /\ ParameterNames(LastInit.env.lookups[2]) = {"k1"}
    /\ Get(serving_keys) = {"k1", "k2"}

\* the fields of the vectors of the last call in which row number rn of the
\* p-th executed lookup has left column col
HoldsField(vector, p, rn, col) ==
    \E j \in 1..Len(vector) :
        Fields(vector)[j] = <<last.out.executed[p], rn, col>>

\* C28: in Single mode the returned vector holds the feature values of every
\* row of every lookup: when a lookup returns more than one row none is
\* dropped.
C28_SingleModeKeepsEveryRow ==
    (Returned /\ SingleMode) =>
        \A p \in 1..Len(last.out.executed) :
            \A r \in 1..Len(last.env.rows[p]) :
                \A col \in ColumnsAt(p) \ Get(serving_keys) :
                    HoldsField(last.out.vectors[1], p, r - 1, col)

\* C29: no value of a returned vector is the value of a serving-key column,
\* in Single and in Batch mode.
C29_NoKeyColumnInVector ==
    Returned =>
        \A i \in 1..Len(last.out.vectors) :
            \A j \in 1..Len(last.out.vectors[i]) :
                last.out.vectors[i][j].col \notin Get(serving_keys)

\* the largest number of rows a lookup of the last call returned
MaxRowCount ==
    LET counts == {Len(last.env.rows[p]) : p \in 1..Len(last.out.executed)}
    IN  CHOOSE m \in counts : \A c \in counts : c <= m

\* C30: in Batch mode every lookup counts its rows from 0: row number r of
\* every lookup lies in the vector of slot r and no other row does, so the
\* slots are 0..k-1 without a gap, and the returned list is in ascending
\* slot order with as many vectors as the largest row count of any lookup.
C30_BatchSlots ==
    (Returned /\ BatchMode) =>
        /\ Len(last.out.vectors) = MaxRowCount
        /\ \A i \in 1..Len(last.out.vectors) :
              \A j \in 1..Len(last.out.vectors[i]) :
                  last.out.vectors[i][j].rn = i - 1
        /\ \A p \in 1..Len(last.out.executed) :
              \A r \in 1..Len(last.env.rows[p]) :
                  \A col \in ColumnsAt(p) :
                      HoldsField(last.out.vectors[r], p, r - 1, col)

\* a batch call over two lookups of which the first returned one row and the
\* second two has returned two vectors
C30_Witness ==
    /\ Returned /\ BatchMode
    /\ Len(last.out.executed) = 2
    /\ Len(last.env.rows[1]) = 1 /\ Len(last.env.rows[2]) = 2
    /\ Len(last.out.vectors) = 2

\* the columns of the cached lookup of index idx
ColumnsOf(idx) == SeqRange(Columns(DictGet(Get(prepared_statements), idx).text))

\* what decoding leaves of a value of column col
OpsAfterDecoding(col) == IF col \in SeqRange(schema) THEN <<"decode">> ELSE <<>>

\* C31: in the rows that reach a returned vector, a feature of the
\* transformation map is transformed exactly once, every other value is as
\* decoding left it, each row has exactly the columns of its lookup, and a
\* transformation whose feature is in no row raises nothing.
C31_TransformationFrame ==
    /\ Returned =>
          \A i \in 1..Len(last.out.vectors) :
              \A j \in 1..Len(last.out.vectors[i]) :
                  LET c == last.out.vectors[i][j]
                  IN  /\ Count(c.ops, "transform") =
                            (IF c.col \in transformation_functions THEN 1 ELSE 0)
                      /\ c.col \notin transformation_functions =>
                            c.ops = OpsAfterDecoding(c.col)
                      /\ c.col \in ColumnsOf(c.lk)
                      /\ \A col \in ColumnsOf(c.lk) :
                            \E k \in 1..Len(last.out.vectors[i]) :
                                Fields(last.out.vectors[i])[k] = <<c.lk, c.rn, col>>
    /\ (Got /\ last.env.fail.kind # "transform")
          => last.out.err # "TransformationError"

\* a call has returned a vector with f1 transformed and f2 untouched while
\* the transformation map also names f9, which no lookup selects
C31_Witness ==
    /\ Returned
    /\ "f9" \in transformation_functions
    /\ \A idx \in SeqRange(DictKeys(Get(prepared_statements))) : "f9" \notin ColumnsOf(idx)
    /\ \E i \in 1..Len(last.out.vectors) :
          \E j, k \in 1..Len(last.out.vectors[i]) :
              /\ last.out.vectors[i][j].col = "f1"
              /\ Count(last.out.vectors[i][j].ops, "transform") = 1
              /\ last.out.vectors[i][k].col = "f2"
              /\ last.out.vectors[i][k].ops = <<>>

\* C32: decoding comes before transformation: in a returned vector a
\* feature that is complex-typed and transformed is transform(decode(raw)),
\* and whenever a binary value was transformed it had been decoded before.
C32_DecodeBeforeTransform ==
    Returned =>
        \A i \in 1..Len(last.out.vectors) :
            \A j \in 1..Len(last.out.vectors[i]) :
                LET c == last.out.vectors[i][j]
                IN  /\ (c.col \in SeqRange(schema) /\ c.col \in transformation_functions)
                          => c.ops = <<"decode", "transform">>
                    /\ \A k \in 1..Len(c.ops) :
                          (c.ops[k] = "transform" /\ c.raw # "plain")
                              => \E m \in 1..(k - 1) : c.ops[m] = "decode"

\* a returned vector holds the complex-typed and transformed feature f1,
\* stored as a binary value, decoded and then transformed
C32_Witness ==
    /\ Returned
    /\ \E i \in 1..Len(last.out.vectors) :
          \E j \in 1..Len(last.out.vectors[i]) :
              /\ last.out.vectors[i][j].col \in SeqRange(schema) \cap transformation_functions
              /\ last.out.vectors[i][j].raw = "blob"
              /\ last.out.vectors[i][j].ops = <<"decode", "transform">>

----------------------------------------------------------------------------
(* Repeated calls: a caller that has called get_serving_vector calls it     *)
(* once again with the same entry; the store answers each call on its own.  *)

RepeatGetServingVectorCall ==
    /\ last.op = "get"
    /\ GetServingVector("get again", {last.entry})

RepeatNext ==
    InitPreparedStatementCall \/ GetServingVectorCall \/ RepeatGetServingVectorCall

RepeatSpec == Init /\ [][RepeatNext]_vars

\* the last call was a get_serving_vector, the first or a repeated one
Served == last.op \in GetOps
ServedAgain == last.op = "get again"

\* the statements a call has sent, each once, in the order of the cache
SentEachOnce(call, stmts) ==
    /\ call.out.executed = DictKeys(stmts)
    /\ call.out.connects = Len(stmts)

\* every value of the vectors of a call is of a row the store answered to
\* that call
FromOwnAnswers(call) ==
    \A i \in 1..Len(call.out.vectors) :
        \A j \in 1..Len(call.out.vectors[i]) :
            LET c == call.out.vectors[i][j]
            IN  \E p \in 1..Len(call.out.executed) :
                    /\ call.out.executed[p] = c.lk
                    /\ c.rn + 1 \in 1..Len(call.env.rows[p])
                    /\ call.env.rows[p][c.rn + 1] = c.ent

\* C33: a call that returns has executed every cached statement exactly
\* once; a call in which an execution fails raises with the failed statement
\* sent once and none after it; and a call repeated with the same entry
\* executes every statement again and builds its vectors from the rows the
\* store answers to that call.
C33_EveryCallExecutesAll ==
    /\ []((Served /\ last.out.err = "")
            => SentEachOnce(last, Get(prepared_statements)))
    /\ []((Served /\ last.env.fail.kind = "execute") =>
            /\ last.out.err = "OperationalError"
            /\ last.out.executed =
                  SubSeq(DictKeys(Get(prepared_statements)), 1, last.env.fail.at)
            /\ last.out.connects = last.env.fail.at)
    /\ [][(Served /\ last.out.err = "" /\ last'.op = "get again"
             /\ last'.out.err = "")
          => /\ last'.entry = last.entry
             /\ SentEachOnce(last', Get(prepared_statements'))
             /\ FromOwnAnswers(last')]_vars

\* a call with an entry of two entities has been repeated on the initialized
\* dataset: the repeated call has executed both statements and returned one
\* vector, the store holding one of the entities
C33_Witness ==
    /\ ServedAgain /\ last.out.err = "" /\ last.was_initialized
    /\ last.out.executed = <<0, 1>>
    /\ EntryVals(last.entry)[1].len = 2
    /\ Len(last.out.vectors) = 1

\* the cached lookups that select column col
LookupsWith(col) ==
    {idx \in SeqRange(DictKeys(Get(prepared_statements))) : col \in ColumnsOf(idx)}

\* C34: with two or more lookups of which only one returns a complex-typed
\* feature, a call that passes the checks and in which no collaborator fails
\* returns: the rows without the complex-typed column are no error.
C34_ComplexFeatureInOneLookup ==
    (Got /\ IsInitialized(Td) /\ PreCheck(Td, last.entry) = ""
       /\ last.env.fail.kind = "none"
       /\ Len(Get(prepared_statements)) >= 2
       /\ \E f \in SeqRange(schema) : Cardinality(LookupsWith(f)) = 1)
    => last.out.err = ""

\* C35: a call on a never-initialized dataset whose entry has exactly the
\* serving keys and whose values are all sequences of one common length
\* n >= 1 is not rejected with ServingModeMismatch by the mode that the call
\* itself initialized.
C35_AutoInitAcceptsItsOwnEntry ==
    (Got /\ ~last.was_initialized /\ InitSucceeded /\ RightKeys
       /\ last.entry # <<>>
       /\ \A i \in 1..Len(LastVals) :
             /\ IsSequence(LastVals[i])
             /\ LastVals[i].len = LastVals[1].len
             /\ LastVals[i].len >= 1)
    => last.out.err # "ServingModeMismatch"

\* the auto-initialization treats value v as a sequence
AutoInitTakesForSequence(v) == AutoInitBatchSize(<<[k |-> "k1", v |-> v]>>) # None

OneValue == Len(last.entry) = 1

\* C36: the three classifications of an entry value agree. For a call with
\* an entry of one value: a value the auto-initialization takes for a
\* sequence passes the Batch-mode check and is rejected by the Single-mode
\* check, a value it takes for a scalar is rejected by the Batch-mode check
\* and passes the Single-mode check; and the auto-initialization takes a
\* number or a string for a scalar, a list or a tuple for a sequence.
C36_ClassificationsAgree ==
    /\ (Checked /\ OneValue /\ BatchMode) =>
          (last.out.err = "ServingModeMismatch"
              <=> ~AutoInitTakesForSequence(LastVals[1]))
    /\ (Checked /\ OneValue /\ SingleMode) =>
          (last.out.err = "ServingModeMismatch"
              <=> AutoInitTakesForSequence(LastVals[1]))
    /\ (Got /\ ~last.was_initialized /\ RanInit) =>
          ((LastInit.batch_size # None) <=> IsSequence(LastVals[1]))

\* C37: the recorded batch size is set only if the statement cache is set:
\* an init that fails leaves no mode behind.
C37_BatchSizeOnlyWithCache ==
    serving_batch_size # None => prepared_statements # None

\* the last call was an init on an initialized dataset, and it failed
ReInitFailed == last.op = "init" /\ last.was_initialized /\ last.out.err # ""

\* C38: a re-init that fails discards the earlier cache, connection and
\* ServingKeys, and the get_serving_vector call that follows it initializes
\* with the batch size derived from its own entry: the mode it runs in is
\* that initialization's, not the failed init's nor the earlier one's.
\* Stated for entries with at least one value.
C38_FailedReInitDiscardsState ==
    /\ [](ReInitFailed =>
            /\ prepared_statements = None
            /\ prepared_statement_engine = None
            /\ serving_keys = None)
    /\ [][(ReInitFailed /\ last'.op = "get" /\ last'.entry # <<>>) =>
            /\ ~last'.was_initialized
            /\ last'.init # None
            /\ Get(last'.init).batch_size = AutoInitBatchSize(last'.entry)
            /\ serving_batch_size' =
                  (IF IsBatchSize(AutoInitBatchSize(last'.entry))
                   THEN AutoInitBatchSize(last'.entry) ELSE None)
            /\ Get(last'.init).err = "" =>
                  /\ TdNext = ProductOf(Get(last'.init))
                  /\ last'.out.batch = IsBatchSize(AutoInitBatchSize(last'.entry))
          ]_vars

\* a batch re-init of an initialized dataset has failed: cache, connection
\* and ServingKeys are unset and the batch size of the failed init is left
C38_Witness ==
    /\ ReInitFailed
    /\ prepared_statements = None /\ serving_keys = None
    /\ serving_batch_size = Some(2)

====
